---- MODULE Spec2Model ----
(***************************************************************************)
(* Lottery+ (src/main.py): the ticket ledger of the lottery bot.           *)
(*                                                                         *)
(* The process runs the Telegram bot on the main thread (one handler at a  *)
(* time: the handlers call the core synchronously, without awaiting) and   *)
(* a threaded Flask server for the payment webhook.  All threads share one *)
(* sqlite3 connection (check_same_thread=False) and the LotteryCore object *)
(* with its in-memory cursor next_ticket; the code takes no lock.  Every   *)
(* SQL statement is one step; statements of different threads interleave.  *)
(* Because the connection is shared, a thread reads the uncommitted writes *)
(* of the others and a commit makes all pending writes durable.  A commit  *)
(* that directly follows a statement is taken in the same step: no thread  *)
(* can tell the two apart, and a stop between them only loses the write.   *)
(*                                                                         *)
(* Amounts are integers in units of 10^-6 TON (the precision of            *)
(* round(.., 6) in reserve_tickets).  created_at/ts columns are left out:  *)
(* no code reads them.                                                     *)
(***************************************************************************)
EXTENDS Integers, Sequences, FiniteSets, TLC

VARIABLES
    users,        \* table users: set of telegram_id
    tickets,      \* table tickets: ticket_number -> [telegram_id, active]
    payments,     \* table payments: sequence, the index is the AUTOINCREMENT id
    draws,        \* table draws: sequence of [winners, prizes] (both TEXT)
    committed,    \* the durable database: the tables as of the last commit
    next_ticket,  \* LotteryCore.next_ticket
    pc,           \* per thread: where it stands in its handler
    loc,          \* per thread: the handler's local variables
    limits,       \* the setting of the run: MAX_TICKETS, the per-purchase
                  \* limit, how many tickets and draws the run goes up to,
                  \* whether requests arrive one after another, and OWNER_ID,
    social        \* the database of the Whitenet bot (src/bot.py): users,
                  \* posts and likes

vars == <<users, tickets, payments, draws, committed, next_ticket, pc, loc, limits,
         social>>
ledger == <<users, tickets, payments, draws, next_ticket>>

----------------------------------------------------------------------------
(* Bounds of the model *)

Capacity == 2     \* the model's MAX_TICKETS (10000 in the source)
QtyLimit == 2     \* the model's per-purchase limit (100 in the source)
MaxIssued == 3    \* no reservation is started that would pass this ticket number
MaxDraws == 1     \* no draw is started once this many draw rows exist

(* the scale of SpecDraw: a lottery of 3 tickets, drawn up to twice *)
DrawCapacity == 3
DrawQtyLimit == 2
DrawMaxIssued == 4
DrawMaxDraws == 2

(* the scale of SpecExample: capacity 10, the first 5 tickets *)
ExampleCapacity == 10
ExampleQtyLimit == 100
ExampleMaxIssued == 5
ExampleMaxDraws == 1

(* the scale of SpecRoundTrip: every quantity of 1..100, reserved once *)
RoundTripCapacity == 100
RoundTripQtyLimit == 100
RoundTripMaxIssued == 100
RoundTripMaxDraws == 1

(* the scale of SpecSocial: the posts the run goes up to *)
MaxPosts == 2

(* Program constants *)

MAX_TICKETS == limits.max_tickets
MAX_QTY == limits.max_qty
TICKET_PRICE == 500000
PRIZES == <<2500, 1500, 500>>
BOT_FEE == 500
CRYPTO_WEBHOOK_SECRET == "change_this_secret"
OWNER_ID == limits.owner_id

(* the two settings of the environment variable OWNER_ID: the telegram id of
   the administrator, or not set (None in the code) *)
Admin == "900"
NoOwner == ""

(* Inputs *)

Owners == {"u1", "u2"}
WebhookTx == "0xa"     \* the tx_hash the provider's events carry
ManualTx == "0xb"      \* the tx_hash typed into /confirm_tx
Senders == {Admin, "u1"}
Quantities == 0..(MAX_QTY + 1)
UnknownInvoice == "u9-9-9"

SocialUsers == {"u1", "u2", "u3"}   \* the Telegram users of the Whitenet bot

Bot == "bot"
Webhooks == {"w1"}
Threads == {Bot} \cup Webhooks

----------------------------------------------------------------------------
(* Helpers *)

Max(S) == CHOOSE m \in S : \A x \in S : x <= m
Min2(a, b) == IF a <= b THEN a ELSE b
Range(s) == {s[i] : i \in 1..Len(s)}

RECURSIVE SortDesc(_)
SortDesc(S) == IF S = {} THEN <<>> ELSE <<Max(S)>> \o SortDesc(S \ {Max(S)})

RECURSIVE JoinComma(_)
JoinComma(s) ==
    IF Len(s) = 0 THEN ""
    ELSE IF Len(s) = 1 THEN s[1]
    ELSE s[1] \o "," \o JoinComma(Tail(s))

(* str.lower() on the status values the model sends *)
(* a bug: the status compared as sent *)
Lower_AsSent(s) == s

Lower(s) == IF s = "Confirmed" THEN "confirmed" ELSE s

(* Python 3 round() of the quotient a / b: to nearest, ties to even *)
RoundDiv(a, b) ==
    LET q == a \div b
        r == a % b
    IN  IF 2 * r < b THEN q
        ELSE IF 2 * r > b THEN q + 1
        ELSE IF q % 2 = 0 THEN q ELSE q + 1

----------------------------------------------------------------------------
(* DB queries *)

CountSold(tk) == Cardinality({n \in DOMAIN tk : tk[n].active})

ActiveTickets(tk) == {n \in DOMAIN tk : tk[n].active}

InactiveOf(tk, o) == {n \in DOMAIN tk : tk[n].telegram_id = o /\ ~tk[n].active}

(* a bug: availability taken as the whole capacity, whatever was sold *)
Available_IgnoresSold(tk) == MAX_TICKETS

(* a bug: the reserved, unpaid tickets counted against the capacity too *)
Available_CountsReserved(tk) ==
    IF MAX_TICKETS - Cardinality(DOMAIN tk) > 0
    THEN MAX_TICKETS - Cardinality(DOMAIN tk) ELSE 0

Available(tk) ==
    IF MAX_TICKETS - CountSold(tk) > 0 THEN MAX_TICKETS - CountSold(tk) ELSE 0

(* SELECT .. WHERE invoice_id = ? AND confirmed = 0 ORDER BY id DESC LIMIT 1;
   0 when there is no such row *)
(* a bug: the lookup without "AND confirmed = 0" *)
PendingPayment_AnyRow(pays, inv) ==
    LET ids == {i \in 1..Len(pays) : pays[i].invoice_id = inv}
    IN  IF ids = {} THEN 0 ELSE Max(ids)

PendingPayment(pays, inv) ==
    LET ids == {i \in 1..Len(pays) : pays[i].invoice_id = inv /\ ~pays[i].confirmed}
    IN  IF ids = {} THEN 0 ELSE Max(ids)

RECURSIVE SortAsc(_)
SortAsc(S) ==
    IF S = {} THEN <<>>
    ELSE LET m == CHOOSE x \in S : \A y \in S : x <= y
         IN  <<m>> \o SortAsc(S \ {m})

(* a bug: ORDER BY ticket_number without DESC *)
SelectInactive_Asc(tk, o, limit) ==
    LET all == SortAsc(InactiveOf(tk, o))
    IN  SubSeq(all, 1, Min2(limit, Len(all)))

(* SELECT ticket_number .. WHERE telegram_id = ? AND active = 0
   ORDER BY ticket_number DESC LIMIT ? *)
SelectInactiveDesc(tk, o, limit) ==
    LET all == SortDesc(InactiveOf(tk, o))
    IN  SubSeq(all, 1, Min2(limit, Len(all)))

(* a bug: the cursor started from 1 whatever the tickets table holds *)
MaxTicketNumber_Zero(tk) == 0

MaxTicketNumber(tk) == IF DOMAIN tk = {} THEN 0 ELSE Max(DOMAIN tk)

----------------------------------------------------------------------------
(* Core arithmetic *)

QtyInvalid(qty) == qty < 1 \/ qty > MAX_QTY

(* a bug: range(1, qty + 1) for range(qty) *)
ReservedTickets_OffByOne(next, qty) == [i \in 1..qty |-> next + i]

(* a bug: the list counted from 1 and not from the cursor *)
ReservedTickets_FromOne(next, qty) == [i \in 1..qty |-> i]

ReservedTickets(next, qty) == [i \in 1..qty |-> next + (i - 1)]

(* a bug: the cursor advanced by one ticket too few *)
AdvanceCursor_Short(next, qty) == next + qty - 1

AdvanceCursor(next, qty) == next + qty

(* a bug: the price of one ticket, whatever the quantity *)
TotalPrice_OneTicket(qty) == TICKET_PRICE

TotalPrice(qty) == qty * TICKET_PRICE

(* a bug: the invoice id made of the owner and the quantity *)
InvoiceId_OwnerQty(o, tks) == o \o "-" \o ToString(Len(tks))

InvoiceId(o, tks) ==
    o \o "-" \o ToString(tks[1]) \o "-" \o ToString(tks[Len(tks)])

(* a bug: one ticket per payment, whatever the amount *)
ExpectedQty_One(amount) == 1

(* a bug: the amount divided by one TON and not by the price of a ticket *)
ExpectedQty_PerTon(amount) == RoundDiv(amount, 1000000)

ExpectedQty(amount) == RoundDiv(amount, TICKET_PRICE)

(* a bug: random.choices, which samples with replacement *)
Sample3_WithReplacement(pool) == [1..3 -> pool]

(* random.sample(all_tickets, 3): every ordered choice of 3 distinct tickets *)
Sample3(pool) ==
    {w \in [1..3 -> pool] : w[1] # w[2] /\ w[1] # w[3] /\ w[2] # w[3]}

(* a bug: payouts[owner] = PRIZES[i], the last prize of an owner kept alone *)
Payouts_Overwrite(winners, tk) ==
    [o \in {tk[winners[i]].telegram_id : i \in 1..3} |->
        PRIZES[Max({i \in 1..3 : tk[winners[i]].telegram_id = o})]]

(* payouts[owner] = payouts.get(owner, 0.0) + PRIZES[i] *)
Payouts(winners, tk) ==
    [o \in {tk[winners[i]].telegram_id : i \in 1..3} |->
        (IF tk[winners[1]].telegram_id = o THEN PRIZES[1] ELSE 0)
      + (IF tk[winners[2]].telegram_id = o THEN PRIZES[2] ELSE 0)
      + (IF tk[winners[3]].telegram_id = o THEN PRIZES[3] ELSE 0)]

WinnersStr(winners) == JoinComma([i \in 1..Len(winners) |-> ToString(winners[i])])

(* str() of a float prize: 2500.0 -> "2500.0" *)
PrizesStr == JoinComma([i \in 1..Len(PRIZES) |-> ToString(PRIZES[i]) \o ".0"])

----------------------------------------------------------------------------
(* Thread-local state *)

(* Beside the code's locals a thread keeps three observations of its own
   call, which no action reads: cursor_at_call (the cursor when reserve was
   called), inactive_before (the owner's inactive tickets when confirm looked
   the payment up) and flipped (the tickets this confirm turned active). *)
NoLoc ==
    [owner |-> "", qty |-> 0, tickets |-> <<>>, i |-> 0,
     invoice_id |-> "", tx_hash |-> "", payment_id |-> 0, amount |-> 0,
     ticket_numbers |-> <<>>, inactive_before |-> 0, flipped |-> {},
     sold |-> 0, winners |-> <<>>, payouts |-> <<>>, cursor_at_call |-> 0]

Snapshot(u, tk, p, d) == [users |-> u, tickets |-> tk, payments |-> p, draws |-> d]

Limits(c, q, n, d, serial) ==
    [max_tickets |-> c, max_qty |-> q, max_issued |-> n, max_draws |-> d,
     serial |-> serial, owner_id |-> Admin]

(* the Whitenet database after Base.metadata.create_all on a new file *)
NoSocial == [users |-> {}, posts |-> <<>>, likes |-> <<>>]

(* the ledger and the threads after construction on a new database *)
Fresh ==
    /\ users = {}
    /\ tickets = <<>>
    /\ payments = <<>>
    /\ draws = <<>>
    /\ committed = Snapshot({}, <<>>, <<>>, <<>>)
    /\ next_ticket = MaxTicketNumber(<<>>) + 1
    /\ pc = [t \in Threads |-> "idle"]
    /\ loc = [t \in Threads |-> NoLoc]
    /\ social = NoSocial

Init == Fresh /\ limits = Limits(Capacity, QtyLimit, MaxIssued, MaxDraws, FALSE)

(* a request reaches its handler: at any time, or, in a run where requests
   arrive one after another, when no handler is under way *)
Admitted == limits.serial => \A t \in Threads : pc[t] = "idle"

Commit(u, tk, p, d) == committed' = Snapshot(u, tk, p, d)

Goto(t, label) == pc' = [pc EXCEPT ![t] = label]

(* the handler of thread t ends, the core having returned r: the locals go
   and the thread is free for the next request.  The returned value is not
   kept in the state; r is what the return statement evaluates to. *)
Return(t, r) ==
    /\ r.op # "none"
    /\ pc' = [pc EXCEPT ![t] = "idle"]
    /\ loc' = [loc EXCEPT ![t] = NoLoc]

----------------------------------------------------------------------------
(* text_handler -> LotteryCore.reserve_tickets, on the bot thread *)

ReserveFailed(why) == [op |-> "reserve", ok |-> FALSE, reason |-> why]

(* a bug: reserve_tickets without its check of the availability *)
ReserveError_NoCapacityCheck(qty, tk) ==
    IF QtyInvalid(qty) THEN "InvalidQuantity" ELSE ""

(* the two checks of reserve_tickets, in the order of the code: the error
   raised, "" when the call passes both *)
ReserveError(qty, tk) ==
    IF QtyInvalid(qty) THEN "InvalidQuantity"
    ELSE IF qty > Available(tk) THEN "InsufficientCapacity"
    ELSE ""

(* the checks of reserve_tickets, the count of sold tickets and the ticket
   list computed from the cursor *)
TextHandler(o, qty) ==
    /\ pc[Bot] = "idle"
    /\ Admitted
    /\ UNCHANGED <<limits, social>>
    /\ IF ReserveError(qty, tickets) # ""
       THEN /\ Return(Bot, ReserveFailed(ReserveError(qty, tickets)))
            /\ UNCHANGED <<ledger, committed>>
       ELSE /\ next_ticket + qty - 1 <= limits.max_issued
            /\ Goto(Bot, "r_ensure_user")
            /\ loc' = [loc EXCEPT ![Bot] =
                          [NoLoc EXCEPT !.owner = o, !.qty = qty,
                                        !.tickets = ReservedTickets(next_ticket, qty),
                                        !.i = 1, !.cursor_at_call = next_ticket]]
            /\ UNCHANGED <<ledger, committed>>

(* DB.ensure_user: insert and commit when the user is new *)
ReserveEnsureUser ==
    /\ pc[Bot] = "r_ensure_user"
    /\ UNCHANGED <<limits, social>>
    /\ IF loc[Bot].owner \in users
       THEN UNCHANGED <<users, committed>>
       ELSE /\ users' = users \cup {loc[Bot].owner}
            /\ Commit(users', tickets, payments, draws)
    /\ Goto(Bot, "r_add_tickets")
    /\ UNCHANGED <<tickets, payments, draws, next_ticket, loc>>

(* INSERT OR REPLACE of one row: the row of that number, if any, is replaced *)
InsertOrReplace(tk, n, o) ==
    [m \in DOMAIN tk \cup {n} |->
        IF m = n THEN [telegram_id |-> o, active |-> FALSE] ELSE tk[m]]

(* DB.add_tickets: one INSERT OR REPLACE per ticket of the list *)
ReserveInsertTicket ==
    /\ pc[Bot] = "r_add_tickets"
    /\ UNCHANGED <<limits, social>>
    /\ loc[Bot].i <= Len(loc[Bot].tickets)
    /\ tickets' = InsertOrReplace(tickets, loc[Bot].tickets[loc[Bot].i], loc[Bot].owner)
    /\ loc' = [loc EXCEPT ![Bot].i = @ + 1]
    /\ UNCHANGED <<users, payments, draws, committed, next_ticket, pc>>

(* the commit of DB.add_tickets, then self.next_ticket += qty *)
ReserveCommitTickets ==
    /\ pc[Bot] = "r_add_tickets"
    /\ UNCHANGED <<limits, social>>
    /\ loc[Bot].i > Len(loc[Bot].tickets)
    /\ Commit(users, tickets, payments, draws)
    /\ next_ticket' = AdvanceCursor(next_ticket, loc[Bot].qty)
    /\ Goto(Bot, "r_record_payment")
    /\ UNCHANGED <<users, tickets, payments, draws, loc>>

PendingRow(o, inv, amount) ==
    [telegram_id |-> o, invoice_id |-> inv, amount |-> amount,
     tx_hash |-> "", confirmed |-> FALSE]

RecordPayment(pays, o, inv, amount) == Append(pays, PendingRow(o, inv, amount))

(* {"reserved": tickets, "total_price": total_price, "invoice_id": invoice_id} *)
ReserveResult(l) ==
    [op |-> "reserve", ok |-> TRUE, reserved |-> l.tickets,
     total_price |-> TotalPrice(l.qty),
     invoice_id |-> InvoiceId(l.owner, l.tickets)]

(* DB.record_payment (INSERT and commit), and the return of reserve_tickets *)
ReserveRecordPayment ==
    /\ pc[Bot] = "r_record_payment"
    /\ UNCHANGED <<limits, social>>
    /\ payments' = RecordPayment(payments, loc[Bot].owner,
                                 InvoiceId(loc[Bot].owner, loc[Bot].tickets),
                                 TotalPrice(loc[Bot].qty))
    /\ Commit(users, tickets, payments', draws)
    /\ Return(Bot, ReserveResult(loc[Bot]))
    /\ UNCHANGED <<users, tickets, draws, next_ticket>>

----------------------------------------------------------------------------
(* LotteryCore.activate_payment, called by crypto_webhook on a Flask thread
   and by confirm_tx_cmd on the bot thread *)

ConfirmFailed ==
    [op |-> "confirm", ok |-> FALSE, reason |-> "invoice_not_found_or_already_confirmed"]

(* {"ok": True, "activated": ticket_numbers, "telegram_id": .., "amount": ..} *)
ConfirmResult(l) ==
    [op |-> "confirm", ok |-> TRUE, activated |-> l.ticket_numbers,
     telegram_id |-> l.owner, amount |-> l.amount]

(* DB.confirm_payment_by_invoice: the SELECT of the pending payment row *)
SelectPayment(t, inv, tx) ==
    LET id == PendingPayment(payments, inv)
    IN  IF id = 0
        THEN /\ Return(t, ConfirmFailed)
             /\ UNCHANGED <<ledger, committed>>
        ELSE /\ Goto(t, "a_update_payment")
             /\ loc' = [loc EXCEPT ![t] =
                           [NoLoc EXCEPT !.invoice_id = inv, !.tx_hash = tx,
                                         !.payment_id = id,
                                         !.owner = payments[id].telegram_id,
                                         !.amount = payments[id].amount,
                                         !.inactive_before =
                                             Cardinality(InactiveOf(tickets,
                                                 payments[id].telegram_id))]]
             /\ UNCHANGED <<ledger, committed>>

(* /confirm_tx <invoice_id> <tx_hash>: the handler does not look at the
   sender of the update *)
ConfirmTxCmd(sender, inv, tx) ==
    /\ pc[Bot] = "idle"
    /\ Admitted
    /\ UNCHANGED <<limits, social>>
    /\ SelectPayment(Bot, inv, tx)

WebhookRejected(code, why) ==
    [op |-> "webhook", ok |-> FALSE, http |-> code, reason |-> why]

(* a bug: the quantity taken from the amount the event carries, not from the
   amount of the payment row *)
CryptoWebhook_EventAmount(t, ev) ==
    /\ pc[t] = "idle"
    /\ Admitted
    /\ UNCHANGED <<limits, social>>
    /\ IF ev.secret # CRYPTO_WEBHOOK_SECRET \/ ~ev.json
          \/ ev.invoice_id = "" \/ ev.tx_hash = "" \/ ev.amount = 0
          \/ Lower(ev.status) # "confirmed"
          \/ PendingPayment(payments, ev.invoice_id) = 0
       THEN /\ Return(t, WebhookRejected(400, "rejected"))
            /\ UNCHANGED <<ledger, committed>>
       ELSE LET id == PendingPayment(payments, ev.invoice_id)
            IN  /\ Goto(t, "a_update_payment")
                /\ loc' = [loc EXCEPT ![t] =
                              [NoLoc EXCEPT !.invoice_id = ev.invoice_id,
                                            !.tx_hash = ev.tx_hash,
                                            !.payment_id = id,
                                            !.owner = payments[id].telegram_id,
                                            !.amount = ev.amount,
                                            !.inactive_before =
                                                Cardinality(InactiveOf(tickets,
                                                    payments[id].telegram_id))]]
                /\ UNCHANGED <<ledger, committed>>

(* crypto_webhook: the checks of the request, then activate_payment *)
CryptoWebhook(t, ev) ==
    /\ pc[t] = "idle"
    /\ Admitted
    /\ UNCHANGED <<limits, social>>
    /\ IF ev.secret # CRYPTO_WEBHOOK_SECRET
       THEN /\ Return(t, WebhookRejected(403, "forbidden"))
            /\ UNCHANGED <<ledger, committed>>
       ELSE IF ~ev.json
       THEN /\ Return(t, WebhookRejected(400, "no_json"))
            /\ UNCHANGED <<ledger, committed>>
       ELSE IF ev.invoice_id = "" \/ ev.tx_hash = "" \/ ev.amount = 0
       THEN /\ Return(t, WebhookRejected(400, "missing_fields"))
            /\ UNCHANGED <<ledger, committed>>
       ELSE IF Lower(ev.status) # "confirmed"
       THEN /\ Return(t, WebhookRejected(400, "not_confirmed"))
            /\ UNCHANGED <<ledger, committed>>
       ELSE SelectPayment(t, ev.invoice_id, ev.tx_hash)

(* UPDATE payments SET confirmed = 1, tx_hash = ? WHERE id = ? *)
(* a bug: the UPDATE that stores the tx_hash and leaves the row pending *)
MarkConfirmed_TxOnly(pays, id, tx) == [pays EXCEPT ![id].tx_hash = tx]

MarkConfirmed(pays, id, tx) ==
    [pays EXCEPT ![id].confirmed = TRUE, ![id].tx_hash = tx]

(* DB.confirm_payment_by_invoice: the UPDATE and the commit *)
ActivateUpdatePayment(t) ==
    /\ pc[t] = "a_update_payment"
    /\ UNCHANGED <<limits, social>>
    /\ payments' = MarkConfirmed(payments, loc[t].payment_id, loc[t].tx_hash)
    /\ Commit(users, tickets, payments', draws)
    /\ Goto(t, "a_select_tickets")
    /\ UNCHANGED <<users, tickets, draws, next_ticket, loc>>

(* a bug: the tickets selected by the range a..b that the invoice id
   "<owner>-<a>-<b>" names, and not by the owner alone *)
ActivateSelectTickets_OfInvoice(t) ==
    /\ pc[t] = "a_select_tickets"
    /\ UNCHANGED <<limits, social>>
    /\ LET own == InactiveOf(tickets, loc[t].owner)
           named == {n \in own : \E a \in 1..n, b \in n..MaxTicketNumber(tickets) :
                                    loc[t].invoice_id = InvoiceId(loc[t].owner, <<a, b>>)}
           sel == SortDesc(named)
       IN  IF sel = <<>>
           THEN Return(t, ConfirmResult([loc[t] EXCEPT !.ticket_numbers = sel]))
           ELSE /\ Goto(t, "a_activate_tickets")
                /\ loc' = [loc EXCEPT ![t].ticket_numbers = sel, ![t].i = 1]
    /\ UNCHANGED <<ledger, committed>>

(* the SELECT of the owner's inactive tickets; with none selected
   activate_payment returns without calling DB.activate_tickets *)
ActivateSelectTickets(t) ==
    /\ pc[t] = "a_select_tickets"
    /\ UNCHANGED <<limits, social>>
    /\ LET sel == SelectInactiveDesc(tickets, loc[t].owner, ExpectedQty(loc[t].amount))
       IN  IF sel = <<>>
           THEN Return(t, ConfirmResult([loc[t] EXCEPT !.ticket_numbers = sel]))
           ELSE /\ Goto(t, "a_activate_tickets")
                /\ loc' = [loc EXCEPT ![t].ticket_numbers = sel, ![t].i = 1]
    /\ UNCHANGED <<ledger, committed>>

(* UPDATE tickets SET active = 1 WHERE ticket_number = ? *)
SetActive(tk, n) ==
    IF n \in DOMAIN tk THEN [tk EXCEPT ![n].active = TRUE] ELSE tk

(* DB.activate_tickets: one UPDATE per selected ticket *)
ActivateUpdateTicket(t) ==
    /\ pc[t] = "a_activate_tickets"
    /\ UNCHANGED <<limits, social>>
    /\ loc[t].i <= Len(loc[t].ticket_numbers)
    /\ LET n == loc[t].ticket_numbers[loc[t].i]
       IN  /\ tickets' = SetActive(tickets, n)
           /\ loc' = [loc EXCEPT ![t].i = @ + 1,
                                 ![t].flipped =
                                     IF n \in DOMAIN tickets /\ ~tickets[n].active
                                     THEN @ \cup {n} ELSE @]
    /\ UNCHANGED <<users, payments, draws, committed, next_ticket, pc>>

(* the commit of DB.activate_tickets, and the return of activate_payment *)
ActivateCommitTickets(t) ==
    /\ pc[t] = "a_activate_tickets"
    /\ UNCHANGED <<limits, social>>
    /\ loc[t].i > Len(loc[t].ticket_numbers)
    /\ Commit(users, tickets, payments, draws)
    /\ Return(t, ConfirmResult(loc[t]))
    /\ UNCHANGED ledger

----------------------------------------------------------------------------
(* draw_cmd -> LotteryCore.draw_winners, on the bot thread *)

Denied(op) == [op |-> op, ok |-> FALSE, reason |-> "owner_only"]

(* a bug: the command open to every sender *)
IsOwner_Anyone(sender) == TRUE

(* not (not OWNER_ID or update.message.from_user.id != OWNER_ID) *)
IsOwner(sender) == OWNER_ID # NoOwner /\ sender = OWNER_ID

DrawFailed(why) == [op |-> "draw", ok |-> FALSE, reason |-> why]

(* the sender check of draw_cmd, then the count of sold tickets *)
DrawCmd(sender) ==
    /\ pc[Bot] = "idle"
    /\ Admitted
    /\ UNCHANGED <<limits, social>>
    /\ IF ~IsOwner(sender)
       THEN Return(Bot, Denied("draw"))
       ELSE IF CountSold(tickets) < MAX_TICKETS
       THEN Return(Bot, DrawFailed("NotReady"))
       ELSE /\ Len(draws) < limits.max_draws
            /\ Goto(Bot, "d_sample")
            /\ loc' = [loc EXCEPT ![Bot] = [NoLoc EXCEPT !.sold = CountSold(tickets)]]
    /\ UNCHANGED <<ledger, committed>>

(* get_all_active_tickets, the size check and random.sample *)
DrawSample ==
    /\ pc[Bot] = "d_sample"
    /\ UNCHANGED <<limits, social>>
    /\ LET all_tickets == ActiveTickets(tickets)
       IN  IF Cardinality(all_tickets) < 3
           THEN Return(Bot, DrawFailed("InsufficientPool"))
           ELSE /\ \E w \in Sample3(all_tickets) :
                       loc' = [loc EXCEPT ![Bot].winners = w]
                /\ Goto(Bot, "d_payouts")
    /\ UNCHANGED <<ledger, committed>>

(* the loop over the winners: get_ticket_owner and the payout sums *)
DrawPayouts ==
    /\ pc[Bot] = "d_payouts"
    /\ UNCHANGED <<limits, social>>
    /\ loc' = [loc EXCEPT ![Bot].payouts = Payouts(loc[Bot].winners, tickets)]
    /\ Goto(Bot, "d_save")
    /\ UNCHANGED <<ledger, committed>>

(* a bug: the winners stored in ascending order, not as sampled *)
DrawRow_Sorted(winners) ==
    [winners |-> WinnersStr(SortAsc(Range(winners))), prizes |-> PrizesStr]

DrawRow(winners) == [winners |-> WinnersStr(winners), prizes |-> PrizesStr]

(* a bug: the draw written over the one on record *)
SaveDraw_Replace(ds, winners) == <<DrawRow(winners)>>

SaveDraw(ds, winners) == Append(ds, DrawRow(winners))

DrawResult(l) ==
    [op |-> "draw", ok |-> TRUE, winners |-> l.winners, payouts |-> l.payouts,
     bot_fee |-> BOT_FEE]

(* DB.save_draw (INSERT and commit), and the return of draw_winners *)
DrawSave ==
    /\ pc[Bot] = "d_save"
    /\ UNCHANGED <<limits, social>>
    /\ draws' = SaveDraw(draws, loc[Bot].winners)
    /\ Commit(users, tickets, payments, draws')
    /\ Return(Bot, DrawResult(loc[Bot]))
    /\ UNCHANGED <<users, tickets, payments, next_ticket>>

----------------------------------------------------------------------------
(* status_cmd, on the bot thread *)

(* a bug: the tickets issued reported as sold *)
StatusResult_Issued(tk, next) ==
    [op |-> "status", ok |-> TRUE, sold |-> Cardinality(DOMAIN tk),
     capacity |-> MAX_TICKETS, next_ticket |-> next]

StatusResult(tk, next) ==
    [op |-> "status", ok |-> TRUE, sold |-> CountSold(tk),
     capacity |-> MAX_TICKETS, next_ticket |-> next]

StatusCmd(sender) ==
    /\ pc[Bot] = "idle"
    /\ Admitted
    /\ UNCHANGED <<limits, social>>
    /\ IF ~IsOwner(sender)
       THEN Return(Bot, Denied("status"))
       ELSE Return(Bot, StatusResult(tickets, next_ticket))
    /\ UNCHANGED <<ledger, committed>>

----------------------------------------------------------------------------
(* The Whitenet bot (src/bot.py).  Its handlers are coroutines of one event
   loop, and a handler gives way to another at an await only; cmd_post and
   the like branch of process_callback reach their first await after their
   last commit, so each is one step.  Every handler opens a session of its
   own and commits or rolls back before it ends. *)

(* get_or_create_user: the user row is added when it is not there (the
   columns username, display_name and bio play no part in likes) *)
GetOrCreateUser(us, u) == us \cup {u}

PostRow(u) == [user_id |-> u, likes_count |-> 0]

(* /post <text>: the post is stored with likes_count at its default 0; its id
   is its place in the sequence *)
CmdPost(u) ==
    /\ Len(social.posts) < MaxPosts
    /\ social' = [social EXCEPT !.users = GetOrCreateUser(@, u),
                                !.posts = Append(@, PostRow(u))]
    /\ UNCHANGED <<ledger, committed, pc, loc, limits>>

LikeRow(u, p) == [user_id |-> u, post_id |-> p]

(* a bug: the likes table without its UniqueConstraint *)
LikeExists_NoConstraint(ls, u, p) == FALSE

(* UniqueConstraint("user_id", "post_id"): the INSERT of a second row for the
   same pair raises IntegrityError *)
LikeExists(ls, u, p) == \E i \in 1..Len(ls) : ls[i] = LikeRow(u, p)

(* post.likes_count = (post.likes_count or 0) + 1, when the post is found *)
IncrementLikes(ps, p) ==
    IF p \in 1..Len(ps) THEN [ps EXCEPT ![p].likes_count = @ + 1] ELSE ps

(* process_callback, data "like:<post_id>": get_or_create_user commits the
   user row when it is new; then the like is INSERTed and committed, or, on
   IntegrityError, rolled back and the handler ends; then the counter of the
   post is incremented and committed *)
ProcessCallbackLike(u, p) ==
    /\ IF LikeExists(social.likes, u, p)
       THEN social' = [social EXCEPT !.users = GetOrCreateUser(@, u)]
       ELSE social' = [social EXCEPT !.users = GetOrCreateUser(@, u),
                                     !.likes = Append(@, LikeRow(u, p)),
                                     !.posts = IncrementLikes(@, p)]
    /\ UNCHANGED <<ledger, committed, pc, loc, limits>>

(* the like buttons are those of build_post_keyboard, made for stored posts *)
SocialNext ==
    \/ \E u \in SocialUsers : CmdPost(u)
    \/ \E u \in SocialUsers, p \in 1..Len(social.posts) : ProcessCallbackLike(u, p)

SpecSocial == Init /\ [][SocialNext]_vars

----------------------------------------------------------------------------

(* The process stops and is started again: DB() reopens the database as of
   the last commit and LotteryCore.__init__ recomputes the cursor *)

Restart ==
    /\ users' = committed.users
    /\ tickets' = committed.tickets
    /\ payments' = committed.payments
    /\ draws' = committed.draws
    /\ next_ticket' = MaxTicketNumber(committed.tickets) + 1
    /\ pc' = [t \in Threads |-> "idle"]
    /\ loc' = [t \in Threads |-> NoLoc]
    /\ UNCHANGED <<committed, limits, social>>

----------------------------------------------------------------------------
(* Inputs of the handlers *)

InvoiceChoices == {payments[i].invoice_id : i \in 1..Len(payments)} \cup {UnknownInvoice}

GoodEvent(inv, tx) ==
    [secret |-> CRYPTO_WEBHOOK_SECRET, json |-> TRUE, invoice_id |-> inv,
     tx_hash |-> tx, status |-> "confirmed", amount |-> TICKET_PRICE]

WebhookEvents ==
    {GoodEvent(inv, WebhookTx) : inv \in InvoiceChoices}
    \cup {[GoodEvent(inv, WebhookTx) EXCEPT !.status = "Confirmed", !.amount = 2 * TICKET_PRICE]
            : inv \in InvoiceChoices}
    \cup {[GoodEvent(inv, WebhookTx) EXCEPT !.amount = 2 * TICKET_PRICE] : inv \in InvoiceChoices}
    \cup {[GoodEvent(inv, WebhookTx) EXCEPT !.secret = "guess"] : inv \in InvoiceChoices}
    \cup {[GoodEvent(inv, WebhookTx) EXCEPT !.status = "paid"] : inv \in InvoiceChoices}
    \cup {[GoodEvent(inv, WebhookTx) EXCEPT !.amount = 0] : inv \in InvoiceChoices}
    \cup {[GoodEvent(inv, "") EXCEPT !.json = TRUE] : inv \in InvoiceChoices}
    \cup {[GoodEvent("", WebhookTx) EXCEPT !.json = TRUE],
          [GoodEvent("", "") EXCEPT !.json = FALSE]}

(* an update reaches a handler of the bot *)
BotCall ==
    \/ \E o \in Owners, qty \in Quantities : TextHandler(o, qty)
    \/ \E sender \in Senders, inv \in InvoiceChoices : ConfirmTxCmd(sender, inv, ManualTx)
    \/ \E sender \in Senders : DrawCmd(sender)
    \/ \E sender \in Senders : StatusCmd(sender)

ReserveStep ==
    \/ ReserveEnsureUser
    \/ ReserveInsertTicket
    \/ ReserveCommitTickets
    \/ ReserveRecordPayment

DrawStep ==
    \/ DrawSample
    \/ DrawPayouts
    \/ DrawSave

BotStep ==
    \/ BotCall
    \/ ReserveStep
    \/ DrawStep

ActivateStep(t) ==
    \/ ActivateUpdatePayment(t)
    \/ ActivateSelectTickets(t)
    \/ ActivateUpdateTicket(t)
    \/ ActivateCommitTickets(t)

WebhookStep(t) ==
    \/ \E ev \in WebhookEvents : CryptoWebhook(t, ev)
    \/ ActivateStep(t)

Next ==
    \/ BotStep
    \/ ActivateStep(Bot)
    \/ \E t \in Webhooks : WebhookStep(t)

(* the threads of the running process *)
Spec == Init /\ [][Next]_vars

(* the process started with OWNER_ID set, or without it *)
InitAdmin ==
    /\ Fresh
    /\ limits \in {Limits(Capacity, QtyLimit, MaxIssued, MaxDraws, FALSE),
                   [Limits(Capacity, QtyLimit, MaxIssued, MaxDraws, FALSE)
                       EXCEPT !.owner_id = NoOwner]}

SpecAdmin == InitAdmin /\ [][Next]_vars

(* no handler runs while another is under way *)
InitSeq == Fresh /\ limits = Limits(Capacity, QtyLimit, MaxIssued, MaxDraws, TRUE)

SpecSeq == InitSeq /\ [][Next]_vars

(* a lottery of DrawCapacity tickets, one handler at a time *)
InitDraw ==
    Fresh /\ limits = Limits(DrawCapacity, DrawQtyLimit, DrawMaxIssued, DrawMaxDraws, TRUE)

SpecDraw == InitDraw /\ [][Next]_vars

(* capacity 10 and the per-purchase limit of the source, one handler at a
   time, up to ticket 5: no draw gets past its check of the sold count *)
InitExample ==
    Fresh /\ limits = Limits(ExampleCapacity, ExampleQtyLimit, ExampleMaxIssued,
                             ExampleMaxDraws, TRUE)

NextExample ==
    \/ BotCall
    \/ ReserveStep
    \/ ActivateStep(Bot)
    \/ \E t \in Webhooks : WebhookStep(t)

SpecExample == InitExample /\ [][NextExample]_vars

(* one reservation of any quantity up to the per-purchase limit of the
   source, from the empty ledger, and its confirmation *)
InitRoundTrip ==
    Fresh /\ limits = Limits(RoundTripCapacity, RoundTripQtyLimit, RoundTripMaxIssued,
                             RoundTripMaxDraws, TRUE)

NextRoundTrip ==
    \/ \E o \in Owners, qty \in Quantities : next_ticket = 1 /\ TextHandler(o, qty)
    \/ ReserveStep
    \/ \E sender \in Senders, inv \in InvoiceChoices : ConfirmTxCmd(sender, inv, ManualTx)
    \/ ActivateStep(Bot)
    \/ \E t \in Webhooks : WebhookStep(t)

SpecRoundTrip == InitRoundTrip /\ [][NextRoundTrip]_vars

(* the running process, which may stop and be started again at any point *)
NextCrash == Next \/ Restart

SpecCrash == Init /\ [][NextCrash]_vars

----------------------------------------------------------------------------
(* Steps of the handlers, as the properties below see them *)

ReserveUnderWay == pc[Bot] \in {"r_ensure_user", "r_add_tickets", "r_record_payment"}

Confirming(t) == pc[t] \in {"a_update_payment", "a_select_tickets", "a_activate_tickets"}

AllIdle == \A t \in Threads : pc[t] = "idle"

(* the event passes the checks of crypto_webhook *)
Accepted(ev) ==
    /\ ev.secret = CRYPTO_WEBHOOK_SECRET
    /\ ev.json
    /\ ev.invoice_id # "" /\ ev.tx_hash # "" /\ ev.amount # 0
    /\ Lower(ev.status) = "confirmed"

(* this step is thread t calling confirm for invoice inv *)
ConfirmCall(t, inv) ==
    \/ t = Bot /\ \E sender \in Senders : ConfirmTxCmd(sender, inv, ManualTx)
    \/ /\ t \in Webhooks
       /\ \E ev \in WebhookEvents :
              Accepted(ev) /\ ev.invoice_id = inv /\ CryptoWebhook(t, ev)

NoPendingRow(inv) ==
    \A i \in 1..Len(payments) : payments[i].invoice_id = inv => payments[i].confirmed

----------------------------------------------------------------------------
(* C1: whenever no reserve is between its first INSERT and the advance of the
   cursor, the stored ticket numbers are exactly 1..next_ticket-1 (during
   those steps they are 1..next_ticket-1 plus the tickets inserted so far),
   and no step makes the cursor smaller. *)
C1_Dense ==
    IF pc[Bot] = "r_add_tickets"
    THEN DOMAIN tickets = 1..(next_ticket + loc[Bot].i - 2)
    ELSE DOMAIN tickets = 1..(next_ticket - 1)

C1_DenseCursor == []C1_Dense /\ [][next_ticket' >= next_ticket]_vars

C1_Witness ==
    /\ AllIdle
    /\ next_ticket = MaxIssued + 1
    /\ Len(payments) >= 2
    /\ CountSold(tickets) >= 1

(* C2: the number of active tickets never exceeds MAX_TICKETS. *)
C2_ActiveWithinCapacity == CountSold(tickets) <= MAX_TICKETS

(* C3: a reserve call with a valid quantity within availability goes on to
   reserve; every row it inserts is a new, inactive ticket of the caller; and
   when it is about to return, the list it returns is n, n+1, .., n+qty-1 for
   the cursor n at the call, all of them stored for the caller, and the
   cursor stands at n+qty, where the return leaves it. *)
C3_AtReturn ==
    pc[Bot] = "r_record_payment" =>
        LET l == loc[Bot]
            r == ReserveResult(l)
        IN  /\ r.ok
            /\ r.reserved = [i \in 1..l.qty |-> l.cursor_at_call + i - 1]
            /\ next_ticket = l.cursor_at_call + l.qty
            /\ \A i \in 1..l.qty :
                   /\ r.reserved[i] \in DOMAIN tickets
                   /\ tickets[r.reserved[i]].telegram_id = l.owner

C3_Step ==
    /\ \A o \in Owners, qty \in Quantities :
           (TextHandler(o, qty) /\ qty >= 1 /\ qty <= MAX_QTY /\ qty <= Available(tickets))
               => /\ pc'[Bot] = "r_ensure_user"
                  /\ loc'[Bot].owner = o /\ loc'[Bot].qty = qty
                  /\ loc'[Bot].cursor_at_call = next_ticket
    /\ \A n \in DOMAIN tickets' \ DOMAIN tickets :
           /\ pc[Bot] = "r_add_tickets"
           /\ n = loc[Bot].cursor_at_call + loc[Bot].i - 1
           /\ tickets'[n] = [telegram_id |-> loc[Bot].owner, active |-> FALSE]
    /\ (pc[Bot] = "r_record_payment" /\ pc'[Bot] = "idle") => next_ticket' = next_ticket

C3_ReserveRange == []C3_AtReturn /\ [][C3_Step]_vars

C3_Witness ==
    /\ pc[Bot] = "r_record_payment"
    /\ loc[Bot].qty = 2
    /\ loc[Bot].cursor_at_call = 2

(* C4: a reserve call with qty < 1, qty > MAX_QTY or qty above the current
   availability ends at once, and no table row and not the cursor changes. *)
C4_Step ==
    \A o \in Owners, qty \in Quantities :
        (TextHandler(o, qty)
            /\ (qty < 1 \/ qty > MAX_QTY
                \/ qty > MAX_TICKETS - Cardinality({n \in DOMAIN tickets : tickets[n].active})))
        => /\ pc'[Bot] = "idle"
           /\ UNCHANGED <<users, tickets, payments, draws, committed, next_ticket>>

C4_RejectedReserve == [][C4_Step]_vars

(* a reserve of 2 tickets is refused here for want of availability alone *)
C4_Witness ==
    /\ pc[Bot] = "idle"
    /\ CountSold(tickets) = MAX_TICKETS - 1
    /\ next_ticket + 1 <= MaxIssued

(* C5: a confirm call for an invoice that has no unconfirmed payment row
   finds no row, so it returns ConfirmFailed (ok false, reason
   invoice_not_found_or_already_confirmed), ends at once and changes nothing; and an invoice that has a confirmed row has
   no unconfirmed row, so that a confirm called after a successful one for
   the same invoice is such a call. *)
C5_Step ==
    \A t \in Threads, inv \in InvoiceChoices :
        (pc[t] = "idle" /\ NoPendingRow(inv) /\ ConfirmCall(t, inv))
        => /\ PendingPayment(payments, inv) = 0
           /\ ~ConfirmFailed.ok
           /\ ConfirmFailed.reason = "invoice_not_found_or_already_confirmed"
           /\ pc'[t] = "idle"
           /\ UNCHANGED <<users, tickets, payments, draws, committed, next_ticket>>

C5_OnceConfirmed ==
    \A i \in 1..Len(payments) :
        payments[i].confirmed => NoPendingRow(payments[i].invoice_id)

C5_ConfirmNotFound == []C5_OnceConfirmed /\ [][C5_Step]_vars

C5_Witness ==
    /\ AllIdle
    /\ \E i \in 1..Len(payments) :
           /\ payments[i].confirmed
           /\ ActiveTickets(tickets) # {}
           /\ InactiveOf(tickets, payments[i].telegram_id) # {}

(* C6: a confirmed payment row stays, stays confirmed and keeps its tx_hash
   in every step; and a row becomes confirmed only in the UPDATE of a confirm
   call, with the tx_hash that call was given. *)
C6_Step ==
    \A id \in 1..Len(payments) :
        /\ payments[id].confirmed =>
               /\ id <= Len(payments')
               /\ payments'[id].confirmed
               /\ payments'[id].tx_hash = payments[id].tx_hash
        /\ (~payments[id].confirmed /\ id <= Len(payments') /\ payments'[id].confirmed) =>
               \E t \in Threads :
                   /\ pc[t] = "a_update_payment" /\ pc'[t] = "a_select_tickets"
                   /\ loc[t].payment_id = id
                   /\ payments'[id].tx_hash = loc[t].tx_hash

C6_ConfirmedOnce == [][C6_Step]_vars

(* C7: no two confirm calls for the same invoice are both past the lookup of
   the payment row (from there on a call returns ok=True), and the tickets
   that the calls for one invoice have turned active are together no more
   than the quantity of that invoice. *)
C7_OneConfirmPerInvoice ==
    \A t1, t2 \in Threads :
        (Confirming(t1) /\ Confirming(t2) /\ loc[t1].invoice_id = loc[t2].invoice_id) =>
            /\ t1 = t2
            /\ Cardinality(loc[t1].flipped \cup loc[t2].flipped)
                   <= ExpectedQty(loc[t1].amount)

(* C8, the ticket numbers: the numbers a reserve call takes from the cursor
   are not stored yet, its INSERT OR REPLACE never meets an existing row, no
   step removes a ticket row, changes its owner or makes it inactive again,
   and the cursor moves only at the end of the inserts of the one reserve
   under way, from the value that reserve read to that value plus qty. *)
C8_CursorHeld ==
    pc[Bot] \in {"r_ensure_user", "r_add_tickets"} => next_ticket = loc[Bot].cursor_at_call

C8_Step ==
    /\ (pc[Bot] = "idle" /\ pc'[Bot] = "r_ensure_user") =>
           \A i \in 1..Len(loc'[Bot].tickets) : loc'[Bot].tickets[i] \notin DOMAIN tickets
    /\ (pc[Bot] = "r_add_tickets" /\ loc'[Bot].i = loc[Bot].i + 1) =>
           loc[Bot].tickets[loc[Bot].i] \notin DOMAIN tickets
    /\ \A n \in DOMAIN tickets :
           /\ n \in DOMAIN tickets'
           /\ tickets'[n].telegram_id = tickets[n].telegram_id
           /\ tickets[n].active => tickets'[n].active
    /\ next_ticket' # next_ticket =>
           /\ pc[Bot] = "r_add_tickets"
           /\ next_ticket' = loc[Bot].cursor_at_call + loc[Bot].qty

C8_NoOverlap == []C8_CursorHeld /\ [][C8_Step]_vars

(* C8, the atomic unit: a confirm never selects a ticket of a reserve that is
   still under way. *)
C8_Unseen ==
    \A t \in Threads :
        (ReserveUnderWay /\ pc[t] = "a_activate_tickets") =>
            Range(loc[t].ticket_numbers) \cap Range(loc[Bot].tickets) = {}

(* C8: reservations are never assigned overlapping ticket numbers, and the
   steps of a reserve behave as one atomic unit towards a confirm. *)
C8_AtomicReserve == C8_NoOverlap /\ []C8_Unseen

RECURSIVE ConfirmedQtyUpTo(_, _)
ConfirmedQtyUpTo(o, k) ==
    IF k = 0 THEN 0
    ELSE ConfirmedQtyUpTo(o, k - 1)
         + (IF payments[k].telegram_id = o /\ payments[k].confirmed
            THEN ExpectedQty(payments[k].amount) ELSE 0)

(* the tickets bought with the confirmed payments of owner o *)
ConfirmedQty(o) == ConfirmedQtyUpTo(o, Len(payments))

ActiveOf(o) == {n \in DOMAIN tickets : tickets[n].telegram_id = o /\ tickets[n].active}

(* ticket n lies in the range of a reservation whose payment row is pending *)
HasPendingRow(n) ==
    \E id \in 1..Len(payments), a \in 1..n, b \in n..MaxTicketNumber(tickets) :
        /\ payments[id].invoice_id = InvoiceId(tickets[n].telegram_id, <<a, b>>)
        /\ ~payments[id].confirmed

(* C9: whenever no handler is under way (between operations, or after the
   process stopped and was started again), every inactive ticket belongs to
   a reservation whose pending payment row exists, and the activation of
   every confirmed payment has been applied: an owner with inactive tickets
   left has at least as many active tickets as the confirmed payments paid. *)
C9_AllOrNothing ==
    AllIdle =>
        /\ \A n \in DOMAIN tickets : ~tickets[n].active => HasPendingRow(n)
        /\ \A o \in Owners :
               InactiveOf(tickets, o) = {} \/ Cardinality(ActiveOf(o)) >= ConfirmedQty(o)

(* C10: when a confirm call returns ok=True, the tickets it turned from
   inactive to active are min(k, i) many, for k = amount / TICKET_PRICE and
   i the inactive tickets of the owner at the call, and the returned list
   holds exactly those tickets. *)
C10_Step ==
    \A t \in Threads :
        (Confirming(t) /\ pc'[t] = "idle") =>
            LET r == ConfirmResult(loc[t])
            IN  /\ Cardinality(loc[t].flipped)
                       = Min2(ExpectedQty(loc[t].amount), loc[t].inactive_before)
                /\ Range(r.activated) = loc[t].flipped

C10_ActivatedCount == [][C10_Step]_vars

(* C11: the ticket SELECT of a confirm takes min(k, i) inactive tickets of
   the payment's owner, in descending order, and every inactive ticket of the
   owner it leaves out is lower than every ticket it takes; a ticket turns
   active only as the next ticket of such a list, in a confirm for its own
   owner; and the list a confirm returns is the list it selected, all of it
   active. *)
C11_Selected(t, sel) ==
    LET own == InactiveOf(tickets, loc[t].owner)
    IN  /\ loc[t].owner = payments[loc[t].payment_id].telegram_id
        /\ Len(sel) = Min2(ExpectedQty(loc[t].amount), Cardinality(own))
        /\ \A i \in 1..Len(sel) : sel[i] \in own
        /\ \A i \in 1..Len(sel), j \in 1..Len(sel) : i < j => sel[i] > sel[j]
        /\ \A m \in own \ Range(sel) : \A i \in 1..Len(sel) : m < sel[i]

C11_Step ==
    /\ \A t \in Threads :
           /\ (pc[t] = "a_select_tickets" /\ pc'[t] = "a_activate_tickets")
                  => C11_Selected(t, loc'[t].ticket_numbers)
           /\ (pc[t] = "a_select_tickets" /\ pc'[t] = "idle")
                  => C11_Selected(t, <<>>)
           /\ (pc[t] = "a_activate_tickets" /\ pc'[t] = "idle")
                  => LET r == ConfirmResult(loc[t])
                     IN  /\ r.ok
                         /\ r.activated = loc[t].ticket_numbers
                         /\ \A i \in 1..Len(r.activated) : tickets[r.activated[i]].active
    /\ \A n \in DOMAIN tickets :
           (~tickets[n].active /\ tickets'[n].active) =>
               \E t \in Threads :
                   /\ pc[t] = "a_activate_tickets"
                   /\ loc[t].i <= Len(loc[t].ticket_numbers)
                   /\ n = loc[t].ticket_numbers[loc[t].i]
                   /\ tickets[n].telegram_id = loc[t].owner

C11_HighestFirst == [][C11_Step]_vars

(* a confirm for 2 tickets has activated both, and a lower ticket of the
   same owner stays inactive *)
C11_Witness ==
    \E t \in Threads :
        /\ pc[t] = "a_activate_tickets"
        /\ Len(loc[t].ticket_numbers) = 2
        /\ loc[t].i = 3
        /\ InactiveOf(tickets, loc[t].owner) # {}

(* C12: a draw called while fewer than MAX_TICKETS tickets are active fails
   at once (NotReady) and changes nothing; and a draw that succeeds was
   called, and ends, with exactly MAX_TICKETS active tickets, at least 3 of
   them. *)
C12_Step ==
    /\ (DrawCmd(OWNER_ID) /\ CountSold(tickets) < MAX_TICKETS) =>
           /\ DrawFailed("NotReady").ok = FALSE
           /\ pc'[Bot] = "idle"
           /\ UNCHANGED <<users, tickets, payments, draws, committed, next_ticket>>
    /\ (pc[Bot] = "d_save" /\ pc'[Bot] = "idle") =>
           /\ DrawResult(loc[Bot]).ok
           /\ loc[Bot].sold = MAX_TICKETS
           /\ CountSold(tickets) = MAX_TICKETS
           /\ Cardinality(ActiveTickets(tickets)) >= 3

C12_DrawOnlyAtCapacity == [][C12_Step]_vars

(* C13: a draw that succeeds returns 3 pairwise distinct ticket numbers, all
   of them active tickets, and appends the row of these 3 numbers to the
   draws; and when the draw samples, every 3 tickets of the active pool can
   come out as its winners. *)
C13_Step ==
    (pc[Bot] = "d_save" /\ pc'[Bot] = "idle") =>
        LET w == DrawResult(loc[Bot]).winners
        IN  /\ Len(w) = 3
            /\ w[1] # w[2] /\ w[1] # w[3] /\ w[2] # w[3]
            /\ \A i \in 1..3 : w[i] \in DOMAIN tickets /\ tickets[w[i]].active
            /\ Len(draws') = Len(draws) + 1
            /\ draws'[Len(draws')].winners
                   = ToString(w[1]) \o "," \o ToString(w[2]) \o "," \o ToString(w[3])

C13_Possible ==
    (pc[Bot] = "d_sample" /\ Cardinality(ActiveTickets(tickets)) >= 3) =>
        \A S \in SUBSET ActiveTickets(tickets) :
            Cardinality(S) = 3 =>
                \E w \in [1..3 -> S] :
                    /\ {w[1], w[2], w[3]} = S
                    /\ ENABLED (DrawSample /\ loc'[Bot].winners = w)

C13_DistinctWinners == []C13_Possible /\ [][C13_Step]_vars

(* the winners are about to be saved, drawn from a pool of 4 *)
C13_Witness ==
    /\ pc[Bot] = "d_save"
    /\ CountSold(tickets) = 4
    /\ loc[Bot].winners[1] > loc[Bot].winners[2]

RECURSIVE C14_SumOver(_, _)
C14_SumOver(f, S) ==
    IF S = {} THEN 0
    ELSE LET x == CHOOSE y \in S : TRUE IN f[x] + C14_SumOver(f, S \ {x})

(* C14: in the result of a successful draw, with prizes (2500, 1500, 500),
   the payouts name exactly the owners of the 3 winners, each with the sum of
   the prizes of the slots whose winner the owner holds; all payouts sum to
   4500, and an owner who holds the winners of the first and the third slot,
   and not of the second, is paid 3000. *)
C14_Step ==
    (pc[Bot] = "d_save" /\ pc'[Bot] = "idle") =>
        LET r == DrawResult(loc[Bot])
            holder(i) == tickets[r.winners[i]].telegram_id
            slots(o) == {i \in 1..3 : holder(i) = o}
        IN  /\ PRIZES = <<2500, 1500, 500>>
            /\ DOMAIN r.payouts = {holder(i) : i \in 1..3}
            /\ \A o \in DOMAIN r.payouts :
                   r.payouts[o] = C14_SumOver(PRIZES, slots(o))
            /\ C14_SumOver(r.payouts, DOMAIN r.payouts) = 4500
            /\ \A o \in Owners : slots(o) = {1, 3} => r.payouts[o] = 3000

C14_Payouts == [][C14_Step]_vars

(* one owner holds the winners of the first and the third slot, another
   owner the second *)
C14_Witness ==
    /\ pc[Bot] = "d_save"
    /\ tickets[loc[Bot].winners[1]].telegram_id = tickets[loc[Bot].winners[3]].telegram_id
    /\ tickets[loc[Bot].winners[1]].telegram_id # tickets[loc[Bot].winners[2]].telegram_id

(* C15: the active pool that a draw reads for sampling has exactly the size
   that the draw compared with MAX_TICKETS. *)
C15_Step ==
    (pc[Bot] = "d_sample" /\ pc'[Bot] # "d_sample") =>
        Cardinality(ActiveTickets(tickets)) = loc[Bot].sold

C15_ConsistentPool == [][C15_Step]_vars

(* C16: in every step, in the tables as the threads see them and in the
   tables as committed: a ticket row stays, keeps its owner and, once
   active, stays active; a payment row stays, for the same owner, invoice
   and amount; and a draw row stays as it was written. *)
C16_Forward(old, new) ==
    /\ \A n \in DOMAIN old.tickets :
           /\ n \in DOMAIN new.tickets
           /\ new.tickets[n].telegram_id = old.tickets[n].telegram_id
           /\ old.tickets[n].active => new.tickets[n].active
    /\ Len(new.payments) >= Len(old.payments)
    /\ \A i \in 1..Len(old.payments) :
           /\ new.payments[i].telegram_id = old.payments[i].telegram_id
           /\ new.payments[i].invoice_id = old.payments[i].invoice_id
           /\ new.payments[i].amount = old.payments[i].amount
    /\ Len(new.draws) >= Len(old.draws)
    /\ \A i \in 1..Len(old.draws) : new.draws[i] = old.draws[i]

C16_Step ==
    /\ C16_Forward(Snapshot(users, tickets, payments, draws),
                   Snapshot(users', tickets', payments', draws'))
    /\ C16_Forward(committed, committed')

C16_RowsMoveForward == [][C16_Step]_vars

(* a draw is on record, and a reserve and a confirm ran before it *)
C16_Witness ==
    /\ AllIdle
    /\ Len(draws) = 1
    /\ Len(payments) >= 2
    /\ \E i \in 1..Len(payments) : payments[i].confirmed

(* C17: the payments table grows only in the last step of a reserve, by one
   row: pending, without tx_hash, for the caller, with amount
   qty * TICKET_PRICE and invoice_id "<owner>-<first>-<last>" for the range
   counted from the cursor at the call; and the reserve returns that amount
   and that invoice_id. *)
C17_Step ==
    /\ Len(payments') # Len(payments) =>
           /\ pc[Bot] = "r_record_payment" /\ pc'[Bot] = "idle"
           /\ Len(payments') = Len(payments) + 1
    /\ (pc[Bot] = "r_record_payment" /\ pc'[Bot] = "idle") =>
           LET l == loc[Bot]
               r == ReserveResult(l)
               row == payments'[Len(payments')]
               first == l.cursor_at_call
               last == l.cursor_at_call + l.qty - 1
           IN  /\ Len(payments') = Len(payments) + 1
               /\ row.telegram_id = l.owner
               /\ ~row.confirmed
               /\ row.tx_hash = ""
               /\ row.amount = l.qty * TICKET_PRICE
               /\ row.invoice_id = l.owner \o "-" \o ToString(first) \o "-" \o ToString(last)
               /\ r.ok
               /\ r.total_price = row.amount
               /\ r.invoice_id = row.invoice_id

C17_PendingPayment == [][C17_Step]_vars

(* a second reservation, of 2 tickets, is about to record its payment *)
C17_Witness ==
    /\ pc[Bot] = "r_record_payment"
    /\ loc[Bot].qty = 2
    /\ Len(payments) >= 1

(* C18: with capacity 10 and TICKET_PRICE 0.5, from the empty ledger:
   reserve("u1", 3) returns tickets <<1,2,3>>, total_price 1.5 and invoice_id
   "u1-1-3"; the confirm of "u1-1-3" that follows returns <<3,2,1>> with
   tickets 1, 2, 3 all active; and the reserve("u1", 2) that follows returns
   tickets <<4,5>>. *)
C18_AfterReserve ==
    /\ DOMAIN tickets = 1..3
    /\ \A n \in 1..3 : tickets[n] = [telegram_id |-> "u1", active |-> FALSE]
    /\ payments = <<PendingRow("u1", "u1-1-3", 1500000)>>
    /\ next_ticket = 4

C18_AfterConfirm ==
    /\ DOMAIN tickets = 1..3
    /\ \A n \in 1..3 : tickets[n] = [telegram_id |-> "u1", active |-> TRUE]
    /\ Len(payments) = 1
    /\ payments[1].invoice_id = "u1-1-3" /\ payments[1].confirmed
    /\ next_ticket = 4

C18_Step ==
    (MAX_TICKETS = 10 /\ TICKET_PRICE = 500000) =>
        /\ (TextHandler("u1", 3) /\ tickets = <<>> /\ payments = <<>> /\ next_ticket = 1)
               => pc'[Bot] = "r_ensure_user"
        /\ (pc[Bot] = "r_record_payment" /\ pc'[Bot] = "idle"
                /\ payments = <<>> /\ loc[Bot].owner = "u1" /\ loc[Bot].qty = 3)
               => /\ ReserveResult(loc[Bot]).reserved = <<1, 2, 3>>
                  /\ ReserveResult(loc[Bot]).total_price = 1500000
                  /\ ReserveResult(loc[Bot]).invoice_id = "u1-1-3"
                  /\ C18_AfterReserve'
        /\ \A t \in Threads :
               (C18_AfterReserve /\ ConfirmCall(t, "u1-1-3")) => Confirming(t)'
        /\ \A t \in Threads :
               (Confirming(t) /\ pc'[t] = "idle" /\ loc[t].invoice_id = "u1-1-3"
                    /\ Len(payments) = 1 /\ DOMAIN tickets = 1..3)
               => /\ ConfirmResult(loc[t]).ok
                  /\ ConfirmResult(loc[t]).activated = <<3, 2, 1>>
                  /\ C18_AfterConfirm'
        /\ (C18_AfterConfirm /\ TextHandler("u1", 2)) => pc'[Bot] = "r_ensure_user"
        /\ (pc[Bot] = "r_record_payment" /\ pc'[Bot] = "idle"
                /\ Len(payments) = 1 /\ payments[1].invoice_id = "u1-1-3"
                /\ payments[1].confirmed /\ \A n \in 1..3 : tickets[n].active
                /\ loc[Bot].owner = "u1" /\ loc[Bot].qty = 2)
               => ReserveResult(loc[Bot]).reserved = <<4, 5>>

C18_Example == [][C18_Step]_vars

(* the second reserve of the example is about to return *)
C18_Witness ==
    /\ MAX_TICKETS = 10 /\ TICKET_PRICE = 500000
    /\ pc[Bot] = "r_record_payment"
    /\ loc[Bot].owner = "u1" /\ loc[Bot].qty = 2
    /\ Len(payments) = 1 /\ payments[1].invoice_id = "u1-1-3" /\ payments[1].confirmed
    /\ payments[1].amount = 1500000
    /\ \A n \in 1..3 : tickets[n] = [telegram_id |-> "u1", active |-> TRUE]
    /\ DOMAIN tickets = 1..5

(* the fields of a webhook event that the handler asks for, but for status *)
C19_Wellformed(ev) ==
    /\ ev.secret = CRYPTO_WEBHOOK_SECRET
    /\ ev.json
    /\ ev.invoice_id # "" /\ ev.tx_hash # "" /\ ev.amount # 0

(* the webhook handler passes the events of the set good on to confirm: where
   the invoice has a pending payment, the handler can take the event and go
   on to the UPDATE of confirm *)
C19_Passes(good) ==
    \A t \in Webhooks, ev \in good :
        (pc[t] = "idle" /\ PendingPayment(payments, ev.invoice_id) # 0) =>
            ENABLED (CryptoWebhook(t, ev) /\ pc'[t] = "a_update_payment")

(* with an event outside the set good the handler ends at once and changes
   nothing *)
C19_Rejects(good) ==
    \A t \in Webhooks, ev \in WebhookEvents \ good :
        CryptoWebhook(t, ev) =>
            /\ pc'[t] = "idle"
            /\ UNCHANGED <<users, tickets, payments, draws, committed, next_ticket>>

C19_Strict == {ev \in WebhookEvents : C19_Wellformed(ev) /\ ev.status = "confirmed"}

C19_AnyCase ==
    {ev \in WebhookEvents : C19_Wellformed(ev) /\ ev.status \in {"confirmed", "Confirmed"}}

(* C19: a webhook event reaches confirm only with the right secret, a
   non-empty invoice_id, tx_hash and amount, and status equal to
   "confirmed"; every other event is rejected and changes nothing. *)
C19_OnlyConfirmed == []C19_Passes(C19_Strict) /\ [][C19_Rejects(C19_Strict)]_vars

(* C19 as the code has it: the status is compared in lower case, so
   "Confirmed" is passed on like "confirmed". *)
C19_OnlyConfirmedAnyCase == []C19_Passes(C19_AnyCase) /\ [][C19_Rejects(C19_AnyCase)]_vars

(* a webhook event has reached confirm and found the pending payment *)
C19_Witness ==
    \E t \in Webhooks :
        /\ pc[t] = "a_update_payment"
        /\ loc[t].tx_hash = WebhookTx
        /\ ~payments[loc[t].payment_id].confirmed

(* C20: once a draw is on record, a further /draw of the owner is let
   through (up to the number of draws the run goes to), it finds a pool to
   sample from, and every 3 tickets then active can come out, whatever the
   earlier draws were; and the draws table grows only by the row that each
   successful draw appends, so it has one row per successful draw. *)
C20_NotBlocked ==
    /\ (AllIdle /\ Len(draws) >= 1 /\ Len(draws) < limits.max_draws) =>
           ENABLED (DrawCmd(OWNER_ID) /\ pc'[Bot] = "d_sample")
    /\ (pc[Bot] = "d_sample" /\ Len(draws) >= 1) =>
           \A S \in SUBSET ActiveTickets(tickets) :
               Cardinality(S) = 3 =>
                   \E w \in [1..3 -> S] :
                       /\ {w[1], w[2], w[3]} = S
                       /\ ENABLED (DrawSample /\ pc'[Bot] = "d_payouts"
                                       /\ loc'[Bot].winners = w)

C20_Step ==
    /\ Len(draws') # Len(draws) => (pc[Bot] = "d_save" /\ pc'[Bot] = "idle")
    /\ (pc[Bot] = "d_save" /\ pc'[Bot] = "idle") =>
           /\ DrawResult(loc[Bot]).ok
           /\ Len(draws') = Len(draws) + 1
           /\ \A i \in 1..Len(draws) : draws'[i] = draws[i]

C20_DrawAgain == []C20_NotBlocked /\ [][C20_Step]_vars

(* two draws are on record, with different winners *)
C20_Witness ==
    /\ AllIdle
    /\ Len(draws) = 2
    /\ draws[1].winners # draws[2].winners

(* C21: /status of the administrator can be taken whenever the bot is free,
   and taking it changes no row of any table, in the tables as the threads
   see them and as committed, and not the cursor; what it reports is the
   number of tickets that are active now, MAX_TICKETS, and the cursor as it
   stands now. *)
C21_StatusReadOnly ==
    pc[Bot] = "idle" =>
        /\ Admitted => ENABLED StatusCmd(Admin)
        /\ \A sender \in Senders :
               ~ENABLED (StatusCmd(sender) /\ <<ledger, committed>>' # <<ledger, committed>>)
        /\ LET r == StatusResult(tickets, next_ticket)
           IN  /\ r.ok
               /\ r.sold = Cardinality({n \in DOMAIN tickets : tickets[n].active})
               /\ r.capacity = MAX_TICKETS
               /\ r.next_ticket = next_ticket

(* the bot is free while a webhook confirm is half way through its UPDATEs:
   1 ticket active, 2 more issued *)
C21_Witness ==
    /\ pc[Bot] = "idle"
    /\ \E t \in Webhooks : pc[t] = "a_activate_tickets"
    /\ CountSold(tickets) = 1
    /\ next_ticket = 4

(* C22: a /confirm_tx sent by a user other than OWNER_ID ends at once: it
   does not go on to confirm a payment, and it changes no table row. *)
C22_Step ==
    \A sender \in Senders \ {OWNER_ID}, inv \in InvoiceChoices :
        ConfirmTxCmd(sender, inv, ManualTx) =>
            /\ pc'[Bot] = "idle"
            /\ UNCHANGED <<users, tickets, payments, draws, committed, next_ticket>>

C22_ConfirmTxAdminOnly == [][C22_Step]_vars

(* C23: a reserve call with 1 <= qty <= MAX_QTY goes on to reserve exactly
   when qty <= max(0, MAX_TICKETS - active tickets), however many inactive
   tickets there are (and, in the model, while the run has ticket numbers
   left): when it is within that number the handler can take the call and
   start reserving, and when it is above, no call of that quantity gets past
   the check. *)
C23_Free == Max({0, MAX_TICKETS - Cardinality({n \in DOMAIN tickets : tickets[n].active})})

C23_ActiveOnly ==
    (pc[Bot] = "idle" /\ Admitted) =>
        \A o \in Owners, qty \in 1..MAX_QTY :
            /\ (qty <= C23_Free /\ next_ticket + qty - 1 <= limits.max_issued) =>
                   /\ ReserveError(qty, tickets) = ""
                   /\ ENABLED (TextHandler(o, qty) /\ pc'[Bot] = "r_ensure_user")
            /\ qty > C23_Free =>
                   /\ ReserveError(qty, tickets) = "InsufficientCapacity"
                   /\ ~ENABLED (TextHandler(o, qty) /\ pc'[Bot] # "idle")

(* a reserve has been let through although the tickets issued before it fill
   the capacity, and more tickets than MAX_TICKETS are issued *)
C23_Witness ==
    /\ pc[Bot] = "r_record_payment"
    /\ loc[Bot].cursor_at_call - 1 >= MAX_TICKETS
    /\ Cardinality(DOMAIN tickets) > MAX_TICKETS
    /\ next_ticket - 1 > MAX_TICKETS

(* C24: when a confirm of invoice "<owner>-<a>-<b>" selects tickets while the
   owner has an inactive ticket above b (a ticket of a later reservation),
   the first ticket it selects is above b, outside a..b; and when the owner
   has at least as many inactive tickets above b as the payment paid for,
   every selected ticket is above b and no ticket of a..b is selected. *)
C24_Step ==
    \A t \in Threads, o \in Owners, a \in 1..MaxTicketNumber(tickets),
       b \in 1..MaxTicketNumber(tickets) :
        LET later == {n \in InactiveOf(tickets, o) : n > b}
            sel == loc'[t].ticket_numbers
        IN  (/\ pc[t] = "a_select_tickets" /\ pc'[t] # "a_select_tickets"
             /\ loc[t].owner = o /\ a <= b
             /\ loc[t].invoice_id = o \o "-" \o ToString(a) \o "-" \o ToString(b)
             /\ later # {})
            => /\ pc'[t] = "a_activate_tickets"
               /\ sel[1] > b
               /\ Cardinality(later) >= ExpectedQty(loc[t].amount) =>
                      \A i \in 1..Len(sel) : sel[i] > b

C24_OwnerScoped == [][C24_Step]_vars

(* no handler is under way; the payment of invoice u1-1-1 is confirmed and
   the payment of the later reservation u1-2-3 is pending, yet ticket 1 is
   inactive and ticket 3 is active *)
C24_Witness ==
    /\ AllIdle
    /\ Len(payments) = 2
    /\ payments[1].invoice_id = "u1-1-1" /\ payments[1].confirmed
    /\ payments[2].invoice_id = "u1-2-3" /\ ~payments[2].confirmed
    /\ ~tickets[1].active /\ ~tickets[2].active /\ tickets[3].active

(* C25: a /draw from a sender whose id is not OWNER_ID, or any /draw while
   OWNER_ID is not set, cannot get past the sender check of the handler: it
   never starts draw_winners; a draw is under way only in a process that has
   OWNER_ID set; and while OWNER_ID is not set the draws table stays empty. *)
C25_Refused ==
    \A sender \in Senders :
        (OWNER_ID = NoOwner \/ sender # OWNER_ID) =>
            ~ENABLED (DrawCmd(sender) /\ (pc'[Bot] # "idle" \/ draws' # draws))

C25_AdminOnly ==
    /\ C25_Refused
    /\ pc[Bot] \in {"d_sample", "d_payouts", "d_save"} => OWNER_ID = Admin
    /\ OWNER_ID = NoOwner => draws = <<>> /\ committed.draws = <<>>

(* the draw rows are written by the draw that the administrator started *)
C25_Step ==
    draws' # draws => (pc[Bot] = "d_save" /\ OWNER_ID = Admin)

C25_DrawByAdmin == []C25_AdminOnly /\ [][C25_Step]_vars

(* OWNER_ID is not set, the bot is free and 3 tickets are active: the sold
   count would let a draw through *)
C25_Witness ==
    /\ OWNER_ID = NoOwner
    /\ AllIdle
    /\ CountSold(tickets) = 3

(* C26: no step of a draw changes a ticket row, a payment row, a user row or
   the cursor; a draw that fails (at the count of sold tickets, or at the
   size of the pool) leaves the draws table and the committed database as
   they were; and the draw that succeeds appends one row to the draws table,
   with the 3 sampled tickets in the order sampled and the prizes
   "2500.0,1500.0,500.0", and writes nothing else. *)
C26_Step ==
    /\ \A sender \in Senders :
           DrawCmd(sender) => UNCHANGED <<ledger, committed>>
    /\ (pc[Bot] \in {"d_sample", "d_payouts", "d_save"} /\ pc'[Bot] # pc[Bot]) =>
           UNCHANGED <<users, tickets, payments, next_ticket>>
    /\ (pc[Bot] = "d_sample" /\ pc'[Bot] = "idle") =>
           /\ Cardinality(ActiveTickets(tickets)) < 3
           /\ ~DrawFailed("InsufficientPool").ok
           /\ UNCHANGED <<draws, committed>>
    /\ (pc[Bot] = "d_sample" /\ pc'[Bot] = "d_payouts") =>
           /\ Cardinality(ActiveTickets(tickets)) >= 3
           /\ UNCHANGED <<draws, committed>>
    /\ (pc[Bot] = "d_payouts" /\ pc'[Bot] # pc[Bot]) => UNCHANGED <<draws, committed>>
    /\ (pc[Bot] = "d_save" /\ pc'[Bot] # pc[Bot]) =>
           LET w == loc[Bot].winners
           IN  /\ DrawResult(loc[Bot]).winners = w
               /\ draws' = draws \o
                      << [winners |-> ToString(w[1]) \o "," \o ToString(w[2])
                                          \o "," \o ToString(w[3]),
                          prizes |-> "2500.0,1500.0,500.0"] >>
               /\ committed' = [users |-> users, tickets |-> tickets,
                                payments |-> payments, draws |-> draws']

(* a draw past the count of sold tickets finds fewer than 3 active tickets
   only where MAX_TICKETS is below 3 *)
C26_PoolCheck ==
    (pc[Bot] = "d_sample" /\ Cardinality(ActiveTickets(tickets)) < 3) => MAX_TICKETS < 3

(* the check of the sold count, whether it fails or passes, writes nothing *)
C26_CallWritesNothing ==
    \A sender \in Senders :
        ~ENABLED (DrawCmd(sender) /\ <<ledger, committed>>' # <<ledger, committed>>)

C26_DrawFrame == [](C26_PoolCheck /\ C26_CallWritesNothing) /\ [][C26_Step]_vars

(* a draw is on record whose winners were not sampled in ascending order,
   while a payment is still pending *)
C26_Witness ==
    /\ AllIdle
    /\ Len(draws) = 1
    /\ draws[1].winners \in {"3,2,1", "2,1,3", "3,1,2", "1,3,2", "2,3,1"}
    /\ \E i \in 1..Len(payments) : ~payments[i].confirmed

(* C27: the steps of a confirm that found its payment row: the UPDATE of the
   payment turns exactly one row from unconfirmed to confirmed, the most
   recent unconfirmed row of the invoice, and changes no other payment row
   and no ticket; each UPDATE of a ticket turns one inactive ticket of the
   payment's owner active and changes no other ticket and no payment; and no
   step of the confirm adds a user, ticket, payment or draw row or moves the
   cursor. *)
C27_Step ==
    \A t \in Threads :
        /\ (Confirming(t) /\ (pc'[t] # pc[t] \/ loc'[t] # loc[t])) =>
               /\ DOMAIN tickets' = DOMAIN tickets
               /\ Len(payments') = Len(payments)
               /\ UNCHANGED <<users, draws, next_ticket>>
               /\ \A n \in DOMAIN tickets :
                      /\ tickets'[n].telegram_id = tickets[n].telegram_id
                      /\ tickets'[n] # tickets[n] =>
                             /\ tickets[n].telegram_id = payments[loc[t].payment_id].telegram_id
                             /\ ~tickets[n].active /\ tickets'[n].active
        /\ (pc[t] = "a_update_payment" /\ pc'[t] # pc[t]) =>
               LET id == loc[t].payment_id
               IN  /\ payments[id].invoice_id = loc[t].invoice_id
                   /\ ~payments[id].confirmed /\ payments'[id].confirmed
                   /\ \A i \in 1..Len(payments) :
                          /\ i # id => payments'[i] = payments[i]
                          /\ (i > id /\ payments[i].invoice_id = loc[t].invoice_id)
                                 => payments[i].confirmed
                   /\ tickets' = tickets
        /\ (pc[t] \in {"a_select_tickets", "a_activate_tickets"}
                /\ (pc'[t] # pc[t] \/ loc'[t] # loc[t])) =>
               payments' = payments

C27_ConfirmFrame == [][C27_Step]_vars

(* two webhook events that differ in the amount alone, both amounts given *)
C28_SameButAmount(ev1, ev2) ==
    /\ [ev1 EXCEPT !.amount = 0] = [ev2 EXCEPT !.amount = 0]
    /\ ev1.amount # 0 /\ ev2.amount # 0
    /\ ev1.amount # ev2.amount

(* C28: a step the webhook handler takes on an event is also the step it
   takes on every event that differs from it in the (non-zero) amount alone:
   from the same state both events lead to the same state, the locals of the
   confirm included, so to the same activated tickets and the same ledger;
   and all through a confirm, the amount it works with is the amount of the
   payment row it found, of which the number of tickets it selects is
   computed. *)
C28_Step ==
    /\ \A t \in Webhooks :
           (pc[t] = "idle" /\ pc'[t] # "idle") =>
               \A ev1 \in WebhookEvents :
                   CryptoWebhook(t, ev1) =>
                       \A ev2 \in WebhookEvents :
                           C28_SameButAmount(ev1, ev2) => CryptoWebhook(t, ev2)
    /\ \A t \in Threads :
           (pc[t] = "a_select_tickets" /\ pc'[t] = "a_activate_tickets") =>
               Len(loc'[t].ticket_numbers)
                   = Min2(payments[loc[t].payment_id].amount \div TICKET_PRICE,
                          Cardinality(InactiveOf(tickets, loc[t].owner)))

C28_StoredAmount ==
    \A t \in Threads :
        Confirming(t) => loc[t].amount = payments[loc[t].payment_id].amount

C28_AmountIgnored == []C28_StoredAmount /\ [][C28_Step]_vars

(* a webhook confirm has activated the 2 tickets of a payment of 2 tickets:
   no event of the model carries that amount for that invoice with a status
   other than the two accepted, and events of both amounts were on offer *)
C28_Witness ==
    \E t \in Webhooks :
        /\ pc[t] = "a_activate_tickets"
        /\ loc[t].amount = 2 * TICKET_PRICE
        /\ Cardinality(loc[t].flipped) = 2
        /\ \E ev1 \in WebhookEvents, ev2 \in WebhookEvents :
               /\ C28_SameButAmount(ev1, ev2)
               /\ ev1.invoice_id = loc[t].invoice_id
               /\ Accepted(ev1)

RECURSIVE C29_QtyUpTo(_, _, _)
C29_QtyUpTo(o, k, conf) ==
    IF k = 0 THEN 0
    ELSE C29_QtyUpTo(o, k - 1, conf)
         + (IF payments[k].telegram_id = o /\ payments[k].confirmed = conf
            THEN payments[k].amount \div TICKET_PRICE ELSE 0)

(* C29, between operations that do not interleave: for every owner the
   active tickets are as many as the confirmed payments of the owner paid
   for and the inactive tickets as many as the pending payments are for,
   every amount being a whole number of ticket prices. *)
C29_Balanced ==
    AllIdle =>
        /\ \A k \in 1..Len(payments) : payments[k].amount % TICKET_PRICE = 0
        /\ \A o \in Owners :
               /\ Cardinality({n \in DOMAIN tickets :
                                  tickets[n].telegram_id = o /\ tickets[n].active})
                      = C29_QtyUpTo(o, Len(payments), TRUE)
               /\ Cardinality({n \in DOMAIN tickets :
                                  tickets[n].telegram_id = o /\ ~tickets[n].active})
                      = C29_QtyUpTo(o, Len(payments), FALSE)

(* C29, the confirm: a confirm that returns ok=True has turned exactly as
   many tickets active as its payment paid for, and returns them. *)
C29_Step ==
    \A t \in Threads :
        (Confirming(t) /\ pc'[t] = "idle") =>
            /\ ConfirmResult(loc[t]).ok
            /\ Cardinality(loc[t].flipped)
                   = payments[loc[t].payment_id].amount \div TICKET_PRICE
            /\ Len(ConfirmResult(loc[t]).activated) = Cardinality(loc[t].flipped)

C29_ExactActivation == []C29_Balanced /\ [][C29_Step]_vars

(* between operations: one owner has a confirmed payment of 2 tickets, the
   other a pending payment of 1 *)
C29_Witness ==
    /\ limits.serial
    /\ AllIdle
    /\ \E i \in 1..Len(payments), j \in 1..Len(payments) :
           /\ payments[i].confirmed /\ payments[i].amount = 2 * TICKET_PRICE
           /\ ~payments[j].confirmed
           /\ payments[j].telegram_id # payments[i].telegram_id

(* sales are closed: the active tickets have reached MAX_TICKETS *)
C30_Full == CountSold(tickets) >= MAX_TICKETS

(* no reserve call, whatever the quantity, gets past its checks, and /draw of
   the administrator gets past its check of the sold count *)
C30_Closed ==
    /\ \A o \in Owners, qty \in Quantities :
           pc[Bot] = "idle" => ~ENABLED (TextHandler(o, qty) /\ pc'[Bot] # "idle")
    /\ ~(CountSold(tickets) < MAX_TICKETS)
    /\ (pc[Bot] = "idle" /\ Admitted /\ Len(draws) < limits.max_draws) =>
           ENABLED (DrawCmd(Admin) /\ pc'[Bot] = "d_sample")

(* the number of active tickets never goes down, so full stays full *)
C30_Step ==
    /\ Cardinality({n \in DOMAIN tickets' : tickets'[n].active})
           >= Cardinality({n \in DOMAIN tickets : tickets[n].active})
    /\ C30_Full => C30_Full'

(* C30 as stated: once the active tickets have reached MAX_TICKETS, every
   reserve call, with any quantity, fails with the insufficient-capacity
   error, and /draw does not fail with NotReady. *)
C30_ClosedAnyQuantity ==
    /\ [][C30_Step]_vars
    /\ [](C30_Full =>
            /\ C30_Closed
            /\ \A qty \in Quantities : ReserveError(qty, tickets) = "InsufficientCapacity")

(* C30 as the code has it: once the active tickets have reached MAX_TICKETS,
   every reserve call fails, with the insufficient-capacity error when the
   quantity is within 1..MAX_QTY and with the invalid-quantity error
   otherwise, and /draw does not fail with NotReady. *)
C30_ClosedForGood ==
    /\ [][C30_Step]_vars
    /\ [](C30_Full =>
            /\ C30_Closed
            /\ \A qty \in Quantities :
                   ReserveError(qty, tickets) =
                       IF qty >= 1 /\ qty <= MAX_QTY
                       THEN "InsufficientCapacity" ELSE "InvalidQuantity")

(* the active tickets are at MAX_TICKETS, the bot is free, and the run has a
   ticket number left that a reserve could take *)
C30_Witness ==
    /\ CountSold(tickets) = MAX_TICKETS
    /\ AllIdle
    /\ next_ticket <= limits.max_issued
    /\ draws = <<>>

(* C31: whenever no handler is under way, in a process that may have been
   stopped and started again at any point, the cursor is 1 plus the highest
   stored ticket number (1 with no ticket stored) and all writes are
   committed; so a restart there recomputes the same cursor and brings back
   the same tables: no restart step from such a state changes the cursor or
   a table.  And however the process was restarted, the numbers a reserve
   takes from the cursor are not stored yet. *)
C31_CursorAfterMax ==
    AllIdle =>
        /\ next_ticket = (IF DOMAIN tickets = {} THEN 0 ELSE Max(DOMAIN tickets)) + 1
        /\ committed = [users |-> users, tickets |-> tickets,
                        payments |-> payments, draws |-> draws]
        /\ ~ENABLED (Restart /\ (next_ticket' # next_ticket \/ ledger' # ledger))

C31_Step ==
    (pc[Bot] = "idle" /\ pc'[Bot] = "r_ensure_user") =>
        \A i \in 1..Len(loc'[Bot].tickets) : loc'[Bot].tickets[i] \notin DOMAIN tickets

C31_RestartKeepsCursor == []C31_CursorAfterMax /\ [][C31_Step]_vars

(* the process was stopped between the commit of a reservation's tickets and
   the INSERT of its payment, and started again: a ticket is stored that no
   payment row stands for, and the cursor is past it *)
C31_Witness ==
    /\ AllIdle
    /\ DOMAIN tickets = 1..2
    /\ Len(payments) = 1
    /\ payments[1].invoice_id \in {"u1-1-1", "u2-1-1"}
    /\ next_ticket = 3

(* C32: for every quantity q of 1..100, the quantity computed at confirm
   from the total price that reserve computes for q is q; every payment row
   holds such a price; and the confirm of a reservation of q tickets asks the
   SELECT for q tickets, the tickets that the reserve stored. *)
C32_RoundTrip ==
    /\ \A q \in 1..MAX_QTY : ExpectedQty(TotalPrice(q)) = q
    /\ \A i \in 1..Len(payments) :
           \E q \in 1..MAX_QTY :
               /\ payments[i].amount = q * TICKET_PRICE
               /\ ExpectedQty(payments[i].amount) = q
    /\ \A t \in Threads :
           pc[t] = "a_select_tickets" =>
               ExpectedQty(loc[t].amount)
                   = Cardinality({n \in DOMAIN tickets : tickets[n].telegram_id = loc[t].owner})

(* a confirm has activated all tickets of a reservation of 100 *)
C32_Witness ==
    \E t \in Threads :
        /\ pc[t] = "a_activate_tickets"
        /\ MAX_QTY = 100
        /\ loc[t].amount = 100 * TICKET_PRICE
        /\ Len(loc[t].ticket_numbers) = 100
        /\ Cardinality(loc[t].flipped) = 100

(* C33: no two payment rows carry the same invoice_id; the invoice_id of a
   row names its owner and a range of ticket numbers stored for that owner,
   the ranges of different rows being disjoint; and for every invoice_id at
   most one row is unconfirmed, so the lookup of confirm has at most one
   candidate. *)
C33_RangeOf(i) ==
    CHOOSE r \in (1..MaxTicketNumber(tickets)) \X (1..MaxTicketNumber(tickets)) :
        payments[i].invoice_id
            = payments[i].telegram_id \o "-" \o ToString(r[1]) \o "-" \o ToString(r[2])

C33_UniqueInvoice ==
    /\ \A i \in 1..Len(payments) :
           /\ \E a \in 1..MaxTicketNumber(tickets), b \in 1..MaxTicketNumber(tickets) :
                  /\ a <= b
                  /\ payments[i].invoice_id
                         = payments[i].telegram_id \o "-" \o ToString(a) \o "-" \o ToString(b)
                  /\ \A n \in a..b : tickets[n].telegram_id = payments[i].telegram_id
           /\ \A j \in 1..Len(payments) :
                  i # j =>
                      /\ payments[i].invoice_id # payments[j].invoice_id
                      /\ (C33_RangeOf(i)[1]..C33_RangeOf(i)[2])
                             \cap (C33_RangeOf(j)[1]..C33_RangeOf(j)[2]) = {}
    /\ \A inv \in InvoiceChoices :
           Cardinality({i \in 1..Len(payments) :
                           payments[i].invoice_id = inv /\ ~payments[i].confirmed}) <= 1

(* three reservations are recorded, two of them by the same owner *)
C33_Witness ==
    /\ Len(payments) = 3
    /\ payments[1].telegram_id = payments[3].telegram_id
    /\ payments[1].telegram_id # payments[2].telegram_id
    /\ ~payments[1].confirmed /\ ~payments[3].confirmed

(* C34: in the Whitenet bot, after any sequence of posts and like callbacks:
   no two like rows have the same user and post; a like callback of a user
   who has liked the post changes nothing; every like row is for a stored
   post and of a stored user; and the likes_count of every post is the
   number of like rows of that post. *)
C34_LikesCounted ==
    /\ \A i \in 1..Len(social.likes), j \in 1..Len(social.likes) :
           (social.likes[i].user_id = social.likes[j].user_id
                /\ social.likes[i].post_id = social.likes[j].post_id) => i = j
    /\ \A u \in SocialUsers, p \in 1..Len(social.posts) :
           (\E i \in 1..Len(social.likes) :
                social.likes[i].user_id = u /\ social.likes[i].post_id = p)
           => ~ENABLED (ProcessCallbackLike(u, p) /\ social' # social)
    /\ \A i \in 1..Len(social.likes) :
           /\ social.likes[i].post_id \in 1..Len(social.posts)
           /\ social.likes[i].user_id \in social.users
    /\ \A p \in 1..Len(social.posts) :
           social.posts[p].likes_count
               = Cardinality({i \in 1..Len(social.likes) : social.likes[i].post_id = p})

(* a like is added only by a callback of a user who had not liked the post,
   one row and one count at a time, and no like or post goes away *)
C34_Step ==
    /\ Len(social.likes') \in {Len(social.likes), Len(social.likes) + 1}
    /\ Len(social.posts') >= Len(social.posts)
    /\ \A i \in 1..Len(social.likes) : social.likes'[i] = social.likes[i]
    /\ \A p \in 1..Len(social.posts) :
           social.posts'[p].likes_count - social.posts[p].likes_count
               = Cardinality({i \in 1..Len(social.likes') :
                                 i > Len(social.likes) /\ social.likes'[i].post_id = p})

====
